---- MODULE Spec2Model ----
(***************************************************************************)
(* Q-Fetcher: a Q-learning cache prefetcher.                               *)
(*                                                                         *)
(* The module models                                                       *)
(*   - SignatureHash            (src/utils/signature_hash.py)              *)
(*   - DeltaQTable              (src/prefetcher/delta_q.py)                *)
(*   - LRU replacement policy   (src/utils/replacement_policy.py)          *)
(*   - RewardTrackerTable       (src/prefetcher/reward_tracker.py)         *)
(*   - QFetcher, the engine     (src/prefetcher/qfetcher.py)               *)
(*                                                                         *)
(* Five specifications are given.  Spec drives the public operations of    *)
(* the reward tracker (insert, check_n_give_reward) with arbitrary         *)
(* arguments and ends them with QFetcher.stop.  SpecEngine runs            *)
(* QFetcher.start over an arbitrary trace followed by QFetcher.stop, as    *)
(* main.py does.  SpecHash folds an arbitrary sequence of deltas into a    *)
(* signature with SignatureHash.  SpecQTable calls the methods of          *)
(* DeltaQTable with arbitrary arguments.  SpecLRU applies LRU.find_victim  *)
(* to arbitrary timestamps and valid bits.                                 *)
(***************************************************************************)
EXTENDS Integers, Sequences, FiniteSets, TLC

(***************************************************************************)
(* Bounds of the model.                                                    *)
(***************************************************************************)
\* Number of addresses processed (tracker calls in Spec, trace entries after
\* the first in SpecEngine), of deltas hashed (SpecHash) and of DeltaQTable
\* calls (SpecQTable).
MaxOps == 4

(***************************************************************************)
(* Configuration (config.json, read by ConfigParser and handed to the      *)
(* constructors).                                                          *)
(***************************************************************************)
n_entries == 2
steps_per_entry == 2
signature_bits == 2
n_shifts == 1
page_size_bytes == 8
cache_line_size_bytes == 2

REWARD_HIT == 16
REWARD_PSEUDO_HIT == 8
REWARD_MISS == -1

reward_hit == REWARD_HIT
\* a tracker built with the hit reward in the place of the pseudo-hit reward
reward_semi_hit_as_hit == REWARD_HIT
reward_semi_hit == REWARD_PSEUDO_HIT
reward_miss == REWARD_MISS

(***************************************************************************)
(* Q-values are floating point numbers in the source.  With alpha and      *)
(* gamma powers of two every value the table can hold is a dyadic rational *)
(* n / 2^e, which a float represents exactly; the model computes with      *)
(* these exactly.                                                          *)
(***************************************************************************)
RECURSIVE Pow2(_)
Pow2(k) == IF k <= 0 THEN 1 ELSE 2 * Pow2(k - 1)

RECURSIVE QNorm(_)
QNorm(x) ==
    IF x.e > 0 /\ x.n % 2 = 0
    THEN QNorm([n |-> x.n \div 2, e |-> x.e - 1])
    ELSE x

QMaxExp(a, b) == IF a.e >= b.e THEN a.e ELSE b.e
QScaled(a, e) == a.n * Pow2(e - a.e)
QInt(k) == [n |-> k, e |-> 0]
QAdd(a, b) == QNorm([n |-> QScaled(a, QMaxExp(a, b)) + QScaled(b, QMaxExp(a, b)),
                     e |-> QMaxExp(a, b)])
QSub(a, b) == QNorm([n |-> QScaled(a, QMaxExp(a, b)) - QScaled(b, QMaxExp(a, b)),
                     e |-> QMaxExp(a, b)])
QMul(a, b) == QNorm([n |-> a.n * b.n, e |-> a.e + b.e])
\* a.n / 2^a.e < b.n / 2^b.e, both sides multiplied by 2^(a.e + b.e)
QLess(a, b) == a.n * Pow2(b.e) < b.n * Pow2(a.e)

alpha == [n |-> 1, e |-> 1]
gamma == [n |-> 1, e |-> 1]

(***************************************************************************)
(* SignatureHash                                                           *)
(***************************************************************************)
RECURSIVE BinDigits(_)
\* bin(n).split('0b')[-1] for n >= 0: the binary digits, most significant first
BinDigits(n) == IF n <= 1 THEN <<n>> ELSE Append(BinDigits(n \div 2), n % 2)

RECURSIVE FromBinDigits(_)
\* int(digits, base=2)
FromBinDigits(d) ==
    IF Len(d) = 0 THEN 0
    ELSE 2 * FromBinDigits(SubSeq(d, 1, Len(d) - 1)) + d[Len(d)]

Abs(x) == IF x < 0 THEN -x ELSE x

\* bin(delta) of a negative delta is '-0b<digits of |delta|>', whose part after
\* '0b' is the digits of the magnitude; the sign digit is put in front of them.
to_sign_magnitude(delta) ==
    IF delta < 0
    THEN FromBinDigits(<<1>> \o BinDigits(Abs(delta)))
    ELSE FromBinDigits(<<0>> \o BinDigits(Abs(delta)))

RECURSIVE BitXor(_, _)
BitXor(a, b) ==
    IF a = 0 THEN b
    ELSE IF b = 0 THEN a
    ELSE (((a % 2) + (b % 2)) % 2) + 2 * BitXor(a \div 2, b \div 2)

RECURSIVE BitAnd(_, _)
BitAnd(a, b) ==
    IF a = 0 \/ b = 0 THEN 0
    ELSE ((a % 2) * (b % 2)) + 2 * BitAnd(a \div 2, b \div 2)

\* a next_signature that does not mask the result
next_signature_unmasked(curr_signature, delta) ==
    BitXor(curr_signature * Pow2(n_shifts), to_sign_magnitude(delta))

next_signature(curr_signature, delta) ==
    BitAnd(BitXor(curr_signature * Pow2(n_shifts), to_sign_magnitude(delta)),
           Pow2(signature_bits) - 1)

(***************************************************************************)
(* DeltaQTable                                                             *)
(***************************************************************************)
n_cache_blks_per_page == page_size_bytes \div cache_line_size_bytes
n_cache_line_offsets == (2 * n_cache_blks_per_page) - 1
n_delta_q_entries == Pow2(signature_bits)
largest_delta == n_cache_blks_per_page - 1
least_delta == -largest_delta
\* SignatureHash.max_bits_per_delta of the hasher the table builds
max_bits_per_delta == Len(BinDigits(largest_delta)) + 1

Signatures == 0 .. (n_delta_q_entries - 1)
Columns == 0 .. (n_cache_line_offsets - 1)
Deltas == least_delta .. largest_delta

\* DeltaQTable._create
ZeroQTable == [s \in Signatures |-> [c \in Columns |-> QInt(0)]]

get_column_index(delta) == delta - least_delta
\* a _get_delta_from_idx that counts the columns down from the largest delta
get_delta_from_idx_mirrored(col_idx) == largest_delta - col_idx
get_delta_from_idx(col_idx) == col_idx + least_delta

\* numpy argmax of one row of the Q-table: the first column holding the maximum
QArgMax(row) ==
    CHOOSE c \in Columns :
        /\ \A d \in Columns : ~QLess(row[c], row[d])
        /\ \A d \in Columns : d < c => QLess(row[d], row[c])

\* an update that does not discount the value of the next state
QUpdateUndiscounted(q, signature, delta, reward) ==
    LET s_curr == signature
        a_curr == get_column_index(delta)
        s_next == next_signature(s_curr, delta)
        a_next == QArgMax(q[s_next])
        target == QSub(QAdd(QInt(reward), q[s_next][a_next]), q[s_curr][a_curr])
    IN  [q EXCEPT ![s_curr][a_curr] = QAdd(q[s_curr][a_curr], QMul(alpha, target))]

\* DeltaQTable.update
QUpdate(q, signature, delta, reward) ==
    LET s_curr == signature
        a_curr == get_column_index(delta)
        s_next == next_signature(s_curr, delta)
        a_next == QArgMax(q[s_next])
        target == QSub(QAdd(QInt(reward), QMul(gamma, q[s_next][a_next])),
                       q[s_curr][a_curr])
    IN  [q EXCEPT ![s_curr][a_curr] = QAdd(q[s_curr][a_curr], QMul(alpha, target))]

(***************************************************************************)
(* Replacement policy (LRU)                                                *)
(***************************************************************************)
Rows == 0 .. (n_entries - 1)

\* numpy argmin of an integer array: the first index holding the minimum
ArgMin(arr) ==
    CHOOSE i \in Rows :
        /\ \A j \in Rows : arr[i] <= arr[j]
        /\ \A j \in Rows : j < i => arr[j] > arr[i]

check_invalid_entry(valid_bits) == \E i \in Rows : valid_bits[i] # 1

\* a policy that takes the last of the rows of minimal timestamp
find_victim_last_oldest(logical_ctrs, valid_bits) ==
    IF check_invalid_entry(valid_bits)
    THEN ArgMin(valid_bits)
    ELSE CHOOSE i \in Rows :
            /\ \A j \in Rows : logical_ctrs[i] <= logical_ctrs[j]
            /\ \A j \in Rows : j > i => logical_ctrs[j] > logical_ctrs[i]

\* a policy that takes logical_ctrs.argmin() also when a row is invalid
find_victim_lru_only(logical_ctrs, valid_bits) == ArgMin(logical_ctrs)

\* a policy that takes valid_bits.argmin() also when every row is valid
find_victim_valid_only(logical_ctrs, valid_bits) == ArgMin(valid_bits)

find_victim(logical_ctrs, valid_bits) ==
    IF check_invalid_entry(valid_bits)
    THEN ArgMin(valid_bits)
    ELSE ArgMin(logical_ctrs)

(***************************************************************************)
(* RewardTrackerTable                                                      *)
(***************************************************************************)
ZeroRow ==
    [prefetched_address |-> 0, delta |-> 0, delta_signature |-> 0, reward |-> 0,
     step |-> 0, timestamp |-> 0, valid |-> 0]

\* RewardTrackerTable._create
ZeroRewardTable == [i \in Rows |-> ZeroRow]

MaskSum(mask) == Cardinality({i \in Rows : mask[i]})

\* a lookup that compares the signature with the delta column
lookup_delta_column(rt, load_addr, delta_signature) ==
    LET pref_matches == [i \in Rows |-> rt[i].prefetched_address = load_addr]
        delta_sig_matches == [i \in Rows |-> rt[i].delta = delta_signature]
        valid_entries == [i \in Rows |-> rt[i].valid > 0]
        entry_matches == [i \in Rows |-> pref_matches[i] /\ valid_entries[i]]
        entry_and_delta_sig_matches ==
            [i \in Rows |-> entry_matches[i] /\ delta_sig_matches[i]]
    IN  [entry_found |-> MaskSum(entry_matches) > 0,
         entry_matches |-> entry_matches,
         entry_and_delta_sig_matches |-> entry_and_delta_sig_matches]

lookup(rt, load_addr, delta_signature) ==
    LET pref_matches == [i \in Rows |-> rt[i].prefetched_address = load_addr]
        delta_sig_matches == [i \in Rows |-> rt[i].delta_signature = delta_signature]
        valid_entries == [i \in Rows |-> rt[i].valid > 0]
        entry_matches == [i \in Rows |-> pref_matches[i] /\ valid_entries[i]]
        entry_and_delta_sig_matches ==
            [i \in Rows |-> entry_matches[i] /\ delta_sig_matches[i]]
    IN  [entry_found |-> MaskSum(entry_matches) > 0,
         entry_matches |-> entry_matches,
         entry_and_delta_sig_matches |-> entry_and_delta_sig_matches]

\* a clock that is advanced by two on every insert
increment_ticks_twice(clock) == clock + 2

increment_ticks(clock) == clock + 1

increment_steps(rt) == [i \in Rows |-> [rt[i] EXCEPT !.step = @ + 1]]

\* an _update_existing that leaves the timestamp alone
update_existing_untouched(rt, clock, idx_mask) ==
    [i \in Rows |->
        IF idx_mask[i] THEN [rt[i] EXCEPT !.reward = @ + reward_hit] ELSE rt[i]]

update_existing(rt, clock, idx_mask) ==
    [i \in Rows |->
        IF idx_mask[i]
        THEN [rt[i] EXCEPT !.timestamp = clock, !.reward = @ + reward_hit]
        ELSE rt[i]]

\* One call of DeltaQTable.update made by the tracker, as it is logged in the
\* history variable updates: the arguments, the row flushed and the reason.
UpdateCall(row, entry, cause) ==
    [signature |-> entry.delta_signature, delta |-> entry.delta,
     reward |-> entry.reward, row |-> row, cause |-> cause,
     was_valid |-> entry.valid]

\* an expiry test that never selects a row
ExpiredMaskNever(rt) == [i \in Rows |-> FALSE]

\* an expiry test that lets a row live one insert longer
ExpiredMaskStrict(rt) ==
    [i \in Rows |-> (rt[i].step > steps_per_entry) /\ (rt[i].valid > 0)]

ExpiredMask(rt) ==
    [i \in Rows |-> (rt[i].step >= steps_per_entry) /\ (rt[i].valid > 0)]

RECURSIVE FlushExpired(_, _, _, _, _)
\* the loop of _invalidate_entries over the selected rows, in row order
FlushExpired(i, rt, mask, q, ups) ==
    IF i >= n_entries THEN [q |-> q, ups |-> ups]
    ELSE IF mask[i]
         THEN FlushExpired(i + 1, rt, mask,
                           QUpdate(q, rt[i].delta_signature, rt[i].delta, rt[i].reward),
                           Append(ups, UpdateCall(i, rt[i], "expiry")))
         ELSE FlushExpired(i + 1, rt, mask, q, ups)

invalidate_entries(rt, q) ==
    LET invalid_entries_ids_mask == ExpiredMask(rt)
        flushed == FlushExpired(0, rt, invalid_entries_ids_mask, q, <<>>)
    IN  IF MaskSum(invalid_entries_ids_mask) = 0
        THEN [rt |-> rt, q |-> q, ups |-> <<>>]
        ELSE [rt |-> [i \in Rows |->
                        IF invalid_entries_ids_mask[i]
                        THEN [rt[i] EXCEPT !.valid = 0]
                        ELSE rt[i]],
              q |-> flushed.q,
              ups |-> flushed.ups]

\* an _issue_rewards that does not take the miss penalty back from the rows
\* whose address matches
issue_rewards_no_cancel(rt, clock, entry_found, all_matches, all_with_delta_sig_matches) ==
    LET penalized ==
            [i \in Rows |->
                IF rt[i].valid > 0 THEN [rt[i] EXCEPT !.reward = @ + reward_miss]
                ELSE rt[i]]
        semi_matches ==
            [i \in Rows |-> all_matches[i] # all_with_delta_sig_matches[i]]
        hit ==
            IF MaskSum(all_with_delta_sig_matches) > 0
            THEN update_existing(penalized, clock, all_with_delta_sig_matches)
            ELSE penalized
    IN  IF entry_found
        THEN [i \in Rows |->
                IF semi_matches[i] THEN [hit[i] EXCEPT !.reward = @ + reward_semi_hit]
                ELSE hit[i]]
        ELSE penalized

issue_rewards(rt, clock, entry_found, all_matches, all_with_delta_sig_matches) ==
    LET penalized ==
            [i \in Rows |->
                IF rt[i].valid > 0 THEN [rt[i] EXCEPT !.reward = @ + reward_miss]
                ELSE rt[i]]
        cancelled ==
            [i \in Rows |->
                IF all_matches[i] THEN [penalized[i] EXCEPT !.reward = @ - reward_miss]
                ELSE penalized[i]]
        semi_matches ==
            [i \in Rows |-> all_matches[i] # all_with_delta_sig_matches[i]]
        hit ==
            IF MaskSum(all_with_delta_sig_matches) > 0
            THEN update_existing(cancelled, clock, all_with_delta_sig_matches)
            ELSE cancelled
    IN  IF entry_found
        THEN [i \in Rows |->
                IF semi_matches[i] THEN [hit[i] EXCEPT !.reward = @ + reward_semi_hit]
                ELSE hit[i]]
        ELSE cancelled

\* a check_n_give_reward without the early return
check_n_give_reward_always(rt, clock, load_addr, delta_signature) ==
    LET l == lookup(rt, load_addr, delta_signature)
    IN  issue_rewards(rt, clock, l.entry_found, l.entry_matches,
                      l.entry_and_delta_sig_matches)

\* a check_n_give_reward that ages the rows as insert does
check_n_give_reward_aging(rt, clock, load_addr, delta_signature) ==
    LET l == lookup(rt, load_addr, delta_signature)
    IN  IF ~l.entry_found
        THEN rt
        ELSE increment_steps(issue_rewards(rt, clock, l.entry_found, l.entry_matches,
                                           l.entry_and_delta_sig_matches))

\* RewardTrackerTable.check_n_give_reward: the table it leaves
check_n_give_reward(rt, clock, load_addr, delta_signature) ==
    LET l == lookup(rt, load_addr, delta_signature)
    IN  IF ~l.entry_found
        THEN rt
        ELSE issue_rewards(rt, clock, l.entry_found, l.entry_matches,
                           l.entry_and_delta_sig_matches)

\* an insert that reads the victim before the rewards are issued
insert_flush_before_rewards(rt, q, clock, pref_addr, delta, delta_signature) ==
    LET inv == invalidate_entries(rt, q)
        stepped == increment_steps(inv.rt)
        l == lookup(stepped, pref_addr, delta_signature)
        n_exact == MaskSum(l.entry_and_delta_sig_matches)
        victim_entry_idx ==
            find_victim([i \in Rows |-> stepped[i].timestamp],
                        [i \in Rows |-> stepped[i].valid])
        rewarded == issue_rewards(stepped, clock, l.entry_found, l.entry_matches,
                                  l.entry_and_delta_sig_matches)
        new_entry ==
            [prefetched_address |-> pref_addr, delta |-> delta,
             delta_signature |-> delta_signature, reward |-> reward_hit,
             step |-> 0, timestamp |-> clock, valid |-> 1]
        victim == stepped[victim_entry_idx]
    IN  IF n_exact > 1
        THEN [rt |-> stepped, q |-> inv.q, clock |-> clock, ups |-> inv.ups,
              error |-> "AssertionError", victim |-> -1, n_exact |-> n_exact,
              found |-> l.entry_found]
        ELSE IF n_exact = 0
        THEN [rt |-> [rewarded EXCEPT ![victim_entry_idx] = new_entry],
              q |-> QUpdate(inv.q, victim.delta_signature, victim.delta, victim.reward),
              clock |-> increment_ticks(clock),
              ups |-> Append(inv.ups, UpdateCall(victim_entry_idx, victim, "victim")),
              error |-> "none", victim |-> victim_entry_idx, n_exact |-> n_exact,
              found |-> l.entry_found]
        ELSE [rt |-> rewarded, q |-> inv.q, clock |-> increment_ticks(clock), ups |-> inv.ups,
              error |-> "none", victim |-> victim_entry_idx, n_exact |-> n_exact,
              found |-> l.entry_found]

\* RewardTrackerTable.insert: the tables and the clock it leaves, the calls of
\* DeltaQTable.update it made, what its lookup found, and whether its
\* assertion failed
insert(rt, q, clock, pref_addr, delta, delta_signature) ==
    LET inv == invalidate_entries(rt, q)
        stepped == increment_steps(inv.rt)
        l == lookup(stepped, pref_addr, delta_signature)
        n_exact == MaskSum(l.entry_and_delta_sig_matches)
        victim_entry_idx ==
            find_victim([i \in Rows |-> stepped[i].timestamp],
                        [i \in Rows |-> stepped[i].valid])
        rewarded == issue_rewards(stepped, clock, l.entry_found, l.entry_matches,
                                  l.entry_and_delta_sig_matches)
        new_entry ==
            [prefetched_address |-> pref_addr, delta |-> delta,
             delta_signature |-> delta_signature, reward |-> reward_hit,
             step |-> 0, timestamp |-> clock, valid |-> 1]
        victim == rewarded[victim_entry_idx]
    IN  IF n_exact > 1
        THEN [rt |-> stepped, q |-> inv.q, clock |-> clock, ups |-> inv.ups,
              error |-> "AssertionError", victim |-> -1, n_exact |-> n_exact,
              found |-> l.entry_found]
        ELSE IF n_exact = 0
        THEN [rt |-> [rewarded EXCEPT ![victim_entry_idx] = new_entry],
              q |-> QUpdate(inv.q, victim.delta_signature, victim.delta, victim.reward),
              clock |-> increment_ticks(clock),
              ups |-> Append(inv.ups, UpdateCall(victim_entry_idx, victim, "victim")),
              error |-> "none", victim |-> victim_entry_idx, n_exact |-> n_exact,
              found |-> l.entry_found]
        ELSE [rt |-> rewarded, q |-> inv.q, clock |-> increment_ticks(clock), ups |-> inv.ups,
              error |-> "none", victim |-> victim_entry_idx, n_exact |-> n_exact,
              found |-> l.entry_found]

(***************************************************************************)
(* Trace preprocessing (PreprocessAddress.preprocess)                      *)
(***************************************************************************)
\* tag_id = address >> page_bits
TagOf(address_int) == address_int \div page_size_bytes
\* block_id = (address >> offset_bits) & block_mask
BlockOf(address_int) ==
    (address_int \div cache_line_size_bytes) % n_cache_blks_per_page

(***************************************************************************)
(* Inputs                                                                  *)
(***************************************************************************)
\* arguments of the tracker's operations in Spec: (address, signature) pairs,
\* two of them on one address and two of them with one signature, and the
\* two extreme deltas
PrefetchKeys == {<<0, 1>>, <<0, 2>>, <<2, 1>>}
InsertDeltas == {least_delta, largest_delta}
\* load addresses of the trace in SpecEngine: two pages
LoadAddrs == 0 .. (2 * page_size_bytes - 1)
\* instruction ids of the trace
InstrIds == {"i"}
\* exploration probability and the values np.random.uniform() is drawn from
epsilon == [n |-> 1, e |-> 1]
UniformDraws == {QInt(0), [n |-> 3, e |-> 2]}

(***************************************************************************)
(* State                                                                   *)
(***************************************************************************)
VARIABLES
    reward_table,     \* RewardTrackerTable.reward_table
    logical_clock,    \* RewardTrackerTable.logical_clock
    delta_q_table,    \* DeltaQTable.delta_q_table
    pc,               \* "calls": the tracker is driven directly (Spec);
                      \* "running", "crashed", "stopped": the engine (SpecEngine)
    error,            \* the exception that ended the program, or "none"
    prev_load_tag,    \* QFetcher.start: prev_load_tag
    prev_cache_blk,   \* QFetcher.start: prev_cache_blk
    delta_signature,  \* QFetcher.start: delta_signature
    pred_buffer,      \* OutputWriter.pred_buffer
    q_buffer,         \* OutputWriter.q_buffer
    processed,        \* history: number of addresses processed so far
    op,               \* history: the last call of a tracker operation
    updates,          \* history: the DeltaQTable.update calls of the last step
    inserts_since,    \* history: per row, insert calls completed since the row
                      \* was last made valid
    step,             \* history: the last step of the engine
    hash_log,         \* history: the last applications of SignatureHash
    qcall,            \* history: the last call of a DeltaQTable method
    credited          \* history: per row, whether an insert ever made it valid and
                      \* the DeltaQTable.update calls made for the record it holds

vars == <<reward_table, logical_clock, delta_q_table, pc, error, prev_load_tag,
          prev_cache_blk, delta_signature, pred_buffer, q_buffer, processed, op,
          updates, inserts_since, step, hash_log, qcall, credited>>

tracker_vars == <<reward_table, logical_clock, delta_q_table>>
engine_vars == <<prev_load_tag, prev_cache_blk, delta_signature, pred_buffer, q_buffer>>
unit_vars == <<hash_log, qcall>>

NoOp == [name |-> "none", addr |-> 0, delta |-> 0, sig |-> 0, victim |-> -1,
         n_exact |-> 0, found |-> FALSE]
NoStep == [kind |-> "none", ip |-> "", addr |-> 0, delta |-> 0, sig |-> 0,
           calls |-> <<>>, delta_idx |-> -1, delta_next |-> 0, pref_addr |-> 0,
           invalid_prefetch |-> FALSE, q_used |-> QInt(0), explored |-> FALSE]
NoQCall == [name |-> "none", signature |-> 0, delta |-> 0, reward |-> 0,
            column |-> 0, back |-> 0, eps |-> QInt(0), uniform |-> QInt(0),
            choice |-> 0, actual_offset |-> 0]

\* The state the constructors leave (QFetcher.initialize)
InitTables ==
    /\ reward_table = ZeroRewardTable
    /\ logical_clock = 0
    /\ delta_q_table = ZeroQTable
    /\ error = "none"
    /\ pred_buffer = <<>>
    /\ q_buffer = <<>>
    /\ processed = 0
    /\ op = NoOp
    /\ updates = <<>>
    /\ inserts_since = [i \in Rows |-> 0]
    /\ step = NoStep
    /\ hash_log = <<>>
    /\ qcall = NoQCall
    /\ credited = [i \in Rows |-> [tracked |-> FALSE, flushes |-> 0]]

Init ==
    /\ InitTables
    /\ pc = "calls"
    /\ prev_load_tag = 0
    /\ prev_cache_blk = 0
    /\ delta_signature = 0

(***************************************************************************)
(* Operations of the reward tracker, called directly                       *)
(***************************************************************************)
InsertsSince(r) ==
    [i \in Rows |->
        IF r.error # "none" THEN inserts_since[i]
        ELSE IF r.n_exact = 0 /\ i = r.victim THEN 0
        ELSE inserts_since[i] + 1]

\* the update calls in ups made for row i
FlushesOf(i, ups) == Cardinality({k \in 1 .. Len(ups) : ups[k].row = i})

Credited(r) ==
    [i \in Rows |->
        IF r.error # "none" THEN credited[i]
        ELSE IF r.n_exact = 0 /\ i = r.victim THEN [tracked |-> TRUE, flushes |-> 0]
        ELSE [credited[i] EXCEPT !.flushes = @ + FlushesOf(i, r.ups)]]

Insert(pref_addr, delta, sig) ==
    /\ pc = "calls"
    /\ error = "none"
    /\ processed < MaxOps
    /\ \E r \in {insert(reward_table, delta_q_table, logical_clock, pref_addr, delta, sig)} :
           /\ reward_table' = r.rt
           /\ delta_q_table' = r.q
           /\ logical_clock' = r.clock
           /\ error' = r.error
           /\ updates' = r.ups
           /\ inserts_since' = InsertsSince(r)
           /\ credited' = Credited(r)
           /\ op' = [name |-> "insert", addr |-> pref_addr, delta |-> delta,
                     sig |-> sig, victim |-> r.victim, n_exact |-> r.n_exact,
                     found |-> r.found]
    /\ processed' = processed + 1
    /\ UNCHANGED <<pc, engine_vars, step, unit_vars>>

CheckNGiveReward(load_addr, sig) ==
    /\ pc = "calls"
    /\ error = "none"
    /\ processed < MaxOps
    /\ reward_table' = check_n_give_reward(reward_table, logical_clock, load_addr, sig)
    /\ op' = [name |-> "check_n_give_reward", addr |-> load_addr, delta |-> 0,
              sig |-> sig, victim |-> -1,
              n_exact |-> MaskSum(lookup(reward_table, load_addr, sig).entry_and_delta_sig_matches),
              found |-> lookup(reward_table, load_addr, sig).entry_found]
    /\ updates' = <<>>
    /\ processed' = processed + 1
    /\ UNCHANGED <<logical_clock, delta_q_table, pc, error, engine_vars,
                   inserts_since, credited, step, unit_vars>>

\* a stop that flushes every valid row into the DeltaQTable and invalidates it
stop_flushing(rt, q) ==
    LET live == [i \in Rows |-> rt[i].valid > 0]
        flushed == FlushExpired(0, rt, live, q, <<>>)
    IN  [rt |-> [i \in Rows |-> [rt[i] EXCEPT !.valid = 0]],
         q |-> flushed.q, ups |-> flushed.ups]

\* QFetcher.stop, as far as the tables go: it closes the output writer and
\* calls nothing else
stop(rt, q) == [rt |-> rt, q |-> q, ups |-> <<>>]

\* the calls end and QFetcher.stop runs on the tracker as they left it
StopCalls ==
    /\ pc = "calls"
    /\ error = "none"
    /\ LET r == stop(reward_table, delta_q_table)
       IN  /\ reward_table' = r.rt
           /\ delta_q_table' = r.q
           /\ updates' = r.ups
    /\ op' = [NoOp EXCEPT !.name = "stop"]
    /\ pc' = "stopped"
    /\ pred_buffer' = <<>>
    /\ q_buffer' = <<>>
    /\ UNCHANGED <<logical_clock, error, prev_load_tag, prev_cache_blk, delta_signature,
                   processed, inserts_since, credited, step, unit_vars>>

Next ==
    \/ \E k \in PrefetchKeys, d \in InsertDeltas : Insert(k[1], d, k[2])
    \/ \E k \in PrefetchKeys : CheckNGiveReward(k[1], k[2])
    \/ StopCalls

Spec == Init /\ [][Next]_vars

(***************************************************************************)
(* The engine: QFetcher.start over a trace, then QFetcher.stop             *)
(***************************************************************************)
\* QFetcher.start before the loop: the first trace entry only seeds
\* prev_load_tag and prev_cache_blk
InitEngine ==
    /\ InitTables
    /\ pc = "running"
    /\ delta_signature = 0
    /\ \E first \in LoadAddrs :
          /\ prev_load_tag = TagOf(first)
          /\ prev_cache_blk = BlockOf(first)

\* a page jump whose delta is left as the raw block difference
PageJumpDeltaRaw(curr_cache_blk, prev_blk) == curr_cache_blk - prev_blk

\* the delta the loop of QFetcher.start folds into the signature
PageJumpDelta(curr_cache_blk, prev_blk) ==
    (curr_cache_blk - prev_blk) + n_cache_blks_per_page
IntraPageDelta(curr_cache_blk, prev_blk) == curr_cache_blk - prev_blk

\* a get_next_offset that explores when the draw equals eps, too
get_next_offset_inclusive(eps, q, signature, uniform, choice) ==
    LET delta_idx ==
            IF QLess(uniform, eps) \/ uniform = eps THEN choice ELSE QArgMax(q[signature])
        delta == get_delta_from_idx(delta_idx)
    IN  [delta_idx |-> delta_idx, delta |-> delta,
         actual_offset |-> delta * cache_line_size_bytes]

\* DeltaQTable.get_next_offset of a table constructed with exploration
\* probability eps, given the value np.random.uniform() returned (a value of
\* [0, 1)) and the column np.random.choice() would return
get_next_offset_with(eps, q, signature, uniform, choice) ==
    LET delta_idx == IF QLess(uniform, eps) THEN choice ELSE QArgMax(q[signature])
        delta == get_delta_from_idx(delta_idx)
    IN  [delta_idx |-> delta_idx, delta |-> delta,
         actual_offset |-> delta * cache_line_size_bytes]

\* the engine's table is constructed with epsilon
get_next_offset(q, signature, uniform, choice) ==
    get_next_offset_with(epsilon, q, signature, uniform, choice)

\* a loop iteration of QFetcher.start on an entry of another page:
\* check_if_prefetched
PageJumpStep(curr_ip, curr_load_addr) ==
    /\ pc = "running"
    /\ processed < MaxOps
    /\ TagOf(curr_load_addr) # prev_load_tag
    /\ LET delta == PageJumpDelta(BlockOf(curr_load_addr), prev_cache_blk)
           sig == next_signature(delta_signature, delta)
           l == lookup(reward_table, curr_load_addr, sig)
       IN  /\ delta_signature' = sig
           /\ reward_table' = check_n_give_reward(reward_table, logical_clock,
                                                  curr_load_addr, sig)
           /\ op' = [name |-> "check_n_give_reward", addr |-> curr_load_addr,
                     delta |-> 0, sig |-> sig, victim |-> -1,
                     n_exact |-> MaskSum(l.entry_and_delta_sig_matches),
                     found |-> l.entry_found]
           /\ step' = [NoStep EXCEPT !.kind = "page_jump", !.ip = curr_ip,
                       !.addr = curr_load_addr, !.delta = delta, !.sig = sig,
                       !.calls = <<"next_signature", "check_n_give_reward">>]
    /\ prev_load_tag' = TagOf(curr_load_addr)
    /\ prev_cache_blk' = BlockOf(curr_load_addr)
    /\ updates' = <<>>
    /\ processed' = processed + 1
    /\ UNCHANGED <<logical_clock, delta_q_table, pc, error, pred_buffer, q_buffer,
                   inserts_since, credited, unit_vars>>

\* a loop iteration of QFetcher.start on an entry of the same page:
\* issue_prefetch.  Its call of RewardTrackerTable.insert passes four arguments
\* (pref_addr, delta_next, delta_signature, invalid_prefetch) to a method that
\* takes three: the call raises TypeError before the body of insert runs, the
\* exception leaves start and main, and the lines after the call (the write to
\* the output buffers, the assignments to prev_load_tag and prev_cache_blk)
\* and QFetcher.stop are never reached.
IntraPageStep(curr_ip, curr_load_addr, uniform, choice) ==
    /\ pc = "running"
    /\ processed < MaxOps
    /\ TagOf(curr_load_addr) = prev_load_tag
    /\ LET delta == IntraPageDelta(BlockOf(curr_load_addr), prev_cache_blk)
           sig == next_signature(delta_signature, delta)
           nxt == get_next_offset(delta_q_table, sig, uniform, choice)
           pref_addr == curr_load_addr + nxt.actual_offset
           invalid_prefetch ==
               \/ nxt.delta + BlockOf(curr_load_addr) > largest_delta
               \/ nxt.delta + BlockOf(curr_load_addr) < 0
       IN  /\ delta_signature' = sig
           /\ step' = [kind |-> "intra_page", ip |-> curr_ip, addr |-> curr_load_addr,
                       delta |-> delta, sig |-> sig,
                       calls |-> <<"next_signature", "get_next_offset", "insert">>,
                       delta_idx |-> nxt.delta_idx, delta_next |-> nxt.delta,
                       pref_addr |-> pref_addr, invalid_prefetch |-> invalid_prefetch,
                       q_used |-> delta_q_table[sig][nxt.delta_idx],
                       explored |-> QLess(uniform, epsilon)]
    /\ pc' = "crashed"
    /\ error' = "TypeError"
    /\ processed' = processed + 1
    /\ UNCHANGED <<tracker_vars, prev_load_tag, prev_cache_blk, pred_buffer, q_buffer,
                   op, updates, inserts_since, credited, unit_vars>>

\* the trace ends: start returns and main calls QFetcher.stop, which closes the
\* output writer (the buffers are dumped to the files and emptied)
Stop ==
    /\ pc = "running"
    /\ pc' = "stopped"
    /\ pred_buffer' = <<>>
    /\ q_buffer' = <<>>
    /\ UNCHANGED <<tracker_vars, error, prev_load_tag, prev_cache_blk, delta_signature,
                   processed, op, updates, inserts_since, credited, step, unit_vars>>

NextEngine ==
    \/ \E ip \in InstrIds, a \in LoadAddrs : PageJumpStep(ip, a)
    \/ \E ip \in InstrIds, a \in LoadAddrs, u \in UniformDraws, c \in Columns :
          IntraPageStep(ip, a, u, c)
    \/ Stop

SpecEngine == InitEngine /\ [][NextEngine]_vars

(***************************************************************************)
(* The signature hasher, applied along a sequence of deltas                *)
(***************************************************************************)
\* the deltas handed to next_signature: every difference of two block ids,
\* with and without the blocks of a page added to it
HashDeltas == (-n_cache_line_offsets) .. n_cache_line_offsets
\* the signatures the sequence starts from, in and above the table's range
HashSignatures == 0 .. (2 * n_delta_q_entries - 1)

HashCall(curr_signature, delta) ==
    [curr_signature |-> curr_signature, delta |-> delta,
     sign_magnitude |-> to_sign_magnitude(delta),
     new_signature |-> next_signature(curr_signature, delta)]

\* the log keeps the last two applications
LastTwo(log, call) ==
    IF Len(log) < 2 THEN Append(log, call) ELSE <<log[2], call>>

InitHash ==
    /\ InitTables
    /\ pc = "hash"
    /\ prev_load_tag = 0
    /\ prev_cache_blk = 0
    /\ delta_signature \in HashSignatures

NextSignature(delta) ==
    /\ pc = "hash"
    /\ processed < MaxOps
    /\ delta_signature' = next_signature(delta_signature, delta)
    /\ hash_log' = LastTwo(hash_log, HashCall(delta_signature, delta))
    /\ processed' = processed + 1
    /\ UNCHANGED <<tracker_vars, pc, error, prev_load_tag, prev_cache_blk, pred_buffer,
                   q_buffer, op, updates, inserts_since, credited, step, qcall>>

NextHash == \E delta \in HashDeltas : NextSignature(delta)

SpecHash == InitHash /\ [][NextHash]_vars

(***************************************************************************)
(* The replacement policy, applied to an arbitrary table                   *)
(***************************************************************************)
\* timestamps and valid bits of the rows handed to find_victim
VictimTimestamps == 0 .. 3
ValidBits == {0, 1}

InitLRU ==
    /\ \E ts \in [Rows -> VictimTimestamps], vb \in [Rows -> ValidBits] :
          reward_table = [i \in Rows |->
                            [ZeroRow EXCEPT !.timestamp = ts[i], !.valid = vb[i]]]
    /\ logical_clock = 0
    /\ delta_q_table = ZeroQTable
    /\ error = "none"
    /\ pred_buffer = <<>>
    /\ q_buffer = <<>>
    /\ processed = 0
    /\ op = NoOp
    /\ updates = <<>>
    /\ inserts_since = [i \in Rows |-> 0]
    /\ step = NoStep
    /\ hash_log = <<>>
    /\ qcall = NoQCall
    /\ credited = [i \in Rows |-> [tracked |-> FALSE, flushes |-> 0]]
    /\ pc = "lru"
    /\ prev_load_tag = 0
    /\ prev_cache_blk = 0
    /\ delta_signature = 0

FindVictim ==
    /\ pc = "lru"
    /\ processed = 0
    /\ op' = [NoOp EXCEPT !.name = "find_victim",
                          !.victim = find_victim([i \in Rows |-> reward_table[i].timestamp],
                                                 [i \in Rows |-> reward_table[i].valid])]
    /\ processed' = 1
    /\ UNCHANGED <<tracker_vars, pc, error, engine_vars, updates, inserts_since, credited, step,
                   unit_vars>>

NextLRU == FindVictim

SpecLRU == InitLRU /\ [][NextLRU]_vars

(***************************************************************************)
(* The methods of DeltaQTable, called directly                             *)
(***************************************************************************)
\* (signature, delta) arguments of update: one whose next signature is
\* another row, two whose next signature is the row they update
UpdateKeys == {<<0, 1>>, <<1, least_delta>>, <<1, largest_delta>>}
\* rewards handed to update: a row that only took misses, a row just created
UpdateRewards == {2 * REWARD_MISS, REWARD_HIT}
\* exploration probabilities the table is constructed with: never explore,
\* the engine's, always explore
Epsilons == {QInt(0), epsilon, QInt(1)}
\* arguments of get_next_offset: the rows update writes, and the columns
\* np.random.choice() may return (the first and the last one)
OffsetSignatures == {0, 1}
ChoiceDraws == {0, n_cache_line_offsets - 1}

InitQTable ==
    /\ InitTables
    /\ pc = "qtable"
    /\ prev_load_tag = 0
    /\ prev_cache_blk = 0
    /\ delta_signature = 0

Update(signature, delta, reward) ==
    /\ pc = "qtable"
    /\ processed < MaxOps
    /\ delta_q_table' = QUpdate(delta_q_table, signature, delta, reward)
    /\ qcall' = [NoQCall EXCEPT !.name = "update", !.signature = signature,
                                !.delta = delta, !.reward = reward]
    /\ processed' = processed + 1
    /\ UNCHANGED <<reward_table, logical_clock, pc, error, engine_vars, op, updates,
                   inserts_since, credited, step, hash_log>>

GetColumnIndex(delta) ==
    /\ pc = "qtable"
    /\ processed < MaxOps
    /\ qcall' = [NoQCall EXCEPT !.name = "_get_column_index", !.delta = delta,
                                !.column = get_column_index(delta),
                                !.back = get_delta_from_idx(get_column_index(delta))]
    /\ processed' = processed + 1
    /\ UNCHANGED <<tracker_vars, pc, error, engine_vars, op, updates, inserts_since, credited,
                   step, hash_log>>

GetDeltaFromIdx(col_idx) ==
    /\ pc = "qtable"
    /\ processed < MaxOps
    /\ qcall' = [NoQCall EXCEPT !.name = "_get_delta_from_idx", !.column = col_idx,
                                !.delta = get_delta_from_idx(col_idx),
                                !.back = get_column_index(get_delta_from_idx(col_idx))]
    /\ processed' = processed + 1
    /\ UNCHANGED <<tracker_vars, pc, error, engine_vars, op, updates, inserts_since, credited,
                   step, hash_log>>

GetNextOffset(eps, signature, uniform, choice) ==
    /\ pc = "qtable"
    /\ processed < MaxOps
    /\ LET nxt == get_next_offset_with(eps, delta_q_table, signature, uniform, choice)
       IN  qcall' = [NoQCall EXCEPT !.name = "get_next_offset",
                                    !.signature = signature, !.eps = eps,
                                    !.uniform = uniform, !.choice = choice,
                                    !.column = nxt.delta_idx, !.delta = nxt.delta,
                                    !.actual_offset = nxt.actual_offset]
    /\ processed' = processed + 1
    /\ UNCHANGED <<tracker_vars, pc, error, engine_vars, op, updates, inserts_since, credited,
                   step, hash_log>>

NextQTable ==
    \/ \E k \in UpdateKeys, reward \in UpdateRewards : Update(k[1], k[2], reward)
    \/ \E eps \in Epsilons, signature \in OffsetSignatures, u \in UniformDraws,
          c \in ChoiceDraws : GetNextOffset(eps, signature, u, c)
    \/ \E delta \in Deltas : GetColumnIndex(delta)
    \/ \E col_idx \in Columns : GetDeltaFromIdx(col_idx)

SpecQTable == InitQTable /\ [][NextQTable]_vars

(***************************************************************************)
(* Properties                                                              *)
(***************************************************************************)
ValidRows == {i \in Rows : reward_table[i].valid > 0}
MinTimestampRows ==
    {i \in Rows : \A j \in Rows : reward_table[i].timestamp <= reward_table[j].timestamp}
HasExactMatch(addr, sig) ==
    \E i \in ValidRows :
        /\ reward_table[i].prefetched_address = addr
        /\ reward_table[i].delta_signature = sig
\* what one insert of address addr adds to the reward of a live row that is
\* not an exact match
InsertAdjustment(i, addr) ==
    IF reward_table[i].prefetched_address = addr THEN reward_semi_hit ELSE reward_miss
SameIdentity(a, b) ==
    /\ a.prefetched_address = b.prefetched_address
    /\ a.delta = b.delta
    /\ a.delta_signature = b.delta_signature
    /\ a.valid = b.valid

\* C1 -- Eviction correctness.  When every row is valid and none has reached
\* steps_per_entry, an insert without an exact match overwrites a row whose
\* timestamp is the smallest of the table, DeltaQTable.update is called exactly
\* once, with that row's signature and delta and the reward the row holds when
\* it is flushed (its reward adjusted by this insert), and every other row
\* keeps its valid bit and its identity.
EvictionReplacesOldest ==
    [][ ( /\ op'.name = "insert"
          /\ \A i \in Rows : /\ reward_table[i].valid = 1
                             /\ reward_table[i].step < steps_per_entry
          /\ ~HasExactMatch(op'.addr, op'.sig) )
        => \E v \in MinTimestampRows :
              /\ reward_table'[v] =
                    [prefetched_address |-> op'.addr, delta |-> op'.delta,
                     delta_signature |-> op'.sig, reward |-> reward_hit,
                     step |-> 0, timestamp |-> logical_clock, valid |-> 1]
              /\ Len(updates') = 1
              /\ updates'[1].row = v
              /\ updates'[1].signature = reward_table[v].delta_signature
              /\ updates'[1].delta = reward_table[v].delta
              /\ updates'[1].reward =
                    reward_table[v].reward + InsertAdjustment(v, op'.addr)
              /\ delta_q_table' =
                    QUpdate(delta_q_table, reward_table[v].delta_signature,
                            reward_table[v].delta,
                            reward_table[v].reward + InsertAdjustment(v, op'.addr))
              /\ \A i \in Rows \ {v} : SameIdentity(reward_table'[i], reward_table[i])
      ]_vars

\* C1 witness: an insert has just evicted a live row while the other row
\* stayed valid, and the evicted row was not the first row of the table.
EvictionHappened ==
    /\ op.name = "insert"
    /\ op.n_exact = 0
    /\ Len(updates) = 1
    /\ updates[1].cause = "victim"
    /\ updates[1].was_valid = 1
    /\ updates[1].row # 0
    /\ \A i \in Rows : reward_table[i].valid = 1

\* C2 (as stated) -- a live row has been flushed and invalidated by the end of
\* the steps_per_entry-th insert that follows the one that created it: no row
\* is valid with steps_per_entry or more inserts behind it.
ExpiredByTheNthInsert ==
    \A i \in ValidRows : inserts_since[i] < steps_per_entry

ExpiryFlushOf(i, ups) ==
    \E k \in 1 .. Len(ups) :
        /\ ups[k].cause = "expiry"
        /\ ups[k].row = i
        /\ ups[k].signature = reward_table[i].delta_signature
        /\ ups[k].delta = reward_table[i].delta
        /\ ups[k].reward = reward_table[i].reward

\* C2 (amended) -- Epoch expiry.  A live row is still valid after
\* steps_per_entry inserts have followed the one that created it, and it is
\* flushed into the DeltaQTable and invalidated by the next insert, the
\* (steps_per_entry + 1)-th, and by no earlier one, whether or not it was
\* matched in between.
ExpiredByTheInsertAfterTheNth ==
    [][ op'.name = "insert"
        => \A i \in ValidRows :
              /\ inserts_since[i] <= steps_per_entry
              /\ (inserts_since[i] = steps_per_entry) <=> ExpiryFlushOf(i, updates')
              /\ (inserts_since[i] = steps_per_entry)
                    => \/ reward_table'[i].valid = 0
                       \/ (op'.victim = i /\ op'.n_exact = 0 /\ inserts_since'[i] = 0)
      ]_vars

\* C2 witness: a row that was matched after it was created has just been
\* flushed by expiry.
ExpiryHappened ==
    /\ op.name = "insert"
    /\ \E k \in 1 .. Len(updates) :
          /\ updates[k].cause = "expiry"
          /\ updates[k].reward > reward_hit

\* C3 -- Invalid rows are zeroed: a row with valid = 0 has signature 0, delta 0
\* and reward 0, and the DeltaQTable.update an insert makes for an invalid
\* victim slot is update(0, 0, 0).
InvalidRowsAreZeroed ==
    /\ \A i \in Rows \ ValidRows :
          /\ reward_table[i].delta_signature = 0
          /\ reward_table[i].delta = 0
          /\ reward_table[i].reward = 0
    /\ \A k \in 1 .. Len(updates) :
          (updates[k].cause = "victim" /\ updates[k].was_valid = 0)
             => /\ updates[k].signature = 0
                /\ updates[k].delta = 0
                /\ updates[k].reward = 0

\* C4 -- Structural invariant: no two valid rows hold the same (prefetched
\* address, delta signature) pair, and the assertion of insert never fails.
NoDuplicateValidRows ==
    /\ \A i, j \in ValidRows :
          ( /\ reward_table[i].prefetched_address = reward_table[j].prefetched_address
            /\ reward_table[i].delta_signature = reward_table[j].delta_signature )
          => i = j
    /\ error # "AssertionError"

\* C4 witness: an insert found its exact match in a full table whose rows
\* share the address.
ExactMatchInFullTable ==
    /\ op.name = "insert"
    /\ op.n_exact = 1
    /\ ValidRows = Rows
    /\ \A i \in Rows : reward_table[i].prefetched_address = op.addr

\* the rows issue_rewards sees as valid in the step that leads to the next
\* state: insert runs it after the expired rows were invalidated
LiveAtRewardTime(i) ==
    /\ reward_table[i].valid > 0
    /\ (op'.name = "insert") => (reward_table[i].step < steps_per_entry)
\* row i was charged the miss penalty by the step: its reward dropped by it,
\* or, when the step overwrote the row, the reward flushed for it had dropped
MissPenaltyApplied(i) ==
    IF op'.name = "insert" /\ op'.n_exact = 0 /\ op'.victim = i
    THEN /\ updates'[Len(updates')].row = i
         /\ updates'[Len(updates')].reward = reward_table[i].reward + reward_miss
    ELSE reward_table'[i].reward = reward_table[i].reward + reward_miss
AllUnmatchedPenalized ==
    \A i \in Rows :
        (LiveAtRewardTime(i) /\ reward_table[i].prefetched_address # op'.addr)
            => MissPenaltyApplied(i)
AddressFound(addr) ==
    \E i \in ValidRows : reward_table[i].prefetched_address = addr

\* C5 (as stated) -- reward distribution runs on every address processed, the
\* page-boundary ones (check_n_give_reward) included: every valid row that
\* does not match the looked-up address is charged the miss penalty.
RewardsOnEveryAddress ==
    [][ op'.name \in {"insert", "check_n_give_reward"} => AllUnmatchedPenalized ]_vars

\* C5 (amended) -- reward distribution runs on every insert and on every
\* check_n_give_reward whose address matches a valid row: there every valid
\* row that does not match the address is charged the miss penalty.  A
\* check_n_give_reward whose address matches no valid row returns before
\* issue_rewards and leaves the whole table as it was.
RewardsOnInsertAndOnFoundCheck ==
    [][ /\ (op'.name = "insert") => AllUnmatchedPenalized
        /\ (op'.name = "check_n_give_reward" /\ AddressFound(op'.addr))
              => AllUnmatchedPenalized
        /\ (op'.name = "check_n_give_reward" /\ ~AddressFound(op'.addr))
              => reward_table' = reward_table
      ]_vars

\* C5 witness: a check_n_give_reward that matched no row has just returned
\* with two valid rows in the table, none of them charged.
UnmatchedCheckHappened ==
    /\ op.name = "check_n_give_reward"
    /\ ~op.found
    /\ ValidRows = Rows
    /\ \A i \in Rows : reward_table[i].prefetched_address # op.addr

\* C6 (as stated) -- the logical clock has advanced by one for every address
\* processed, page-boundary steps (check_n_give_reward) included.
ClockCountsEveryAddress == logical_clock = processed

\* C6 (amended) -- the logical clock never decreases; it advances by exactly
\* one in every insert call and is left unchanged by check_n_give_reward.
ClockCountsInserts ==
    [][ /\ (op'.name = "insert") => (logical_clock' = logical_clock + 1)
        /\ (op'.name = "check_n_give_reward") => (logical_clock' = logical_clock)
        /\ logical_clock' >= logical_clock
      ]_vars

\* C6 witness: inserts and checks have both run, and the clock is behind the
\* number of addresses processed.
ClockBehindAddresses ==
    /\ op.name = "insert"
    /\ logical_clock > 1
    /\ logical_clock < processed

\* C7 -- Invalid prefetches are still recorded: on every intra-page step the
\* engine's call of insert completes without error and leaves a valid row
\* holding the candidate address and the signature.
InsertOfPrefetchCompletes ==
    (step.kind = "intra_page")
        => /\ error = "none"
           /\ \E i \in ValidRows :
                 /\ reward_table[i].prefetched_address = step.pref_addr
                 /\ reward_table[i].delta_signature = step.sig

\* C8 -- Page-boundary steps never issue a prefetch: on an entry whose tag
\* differs from the previous entry's, the engine folds
\* (curr_block - prev_block) + blocks_per_page into the signature, calls
\* check_n_give_reward with the load address and the new signature, calls
\* neither get_next_offset nor insert, and appends nothing to the output.
PageBoundaryNeverPrefetches ==
    [][ (processed' = processed + 1 /\ TagOf(step'.addr) # prev_load_tag)
        => /\ step'.kind = "page_jump"
           /\ step'.delta =
                 (BlockOf(step'.addr) - prev_cache_blk) + n_cache_blks_per_page
           /\ delta_signature' =
                 next_signature(delta_signature,
                     (BlockOf(step'.addr) - prev_cache_blk) + n_cache_blks_per_page)
           /\ step'.calls = <<"next_signature", "check_n_give_reward">>
           /\ op'.name = "check_n_give_reward"
           /\ op'.addr = step'.addr
           /\ op'.sig = delta_signature'
           /\ pred_buffer' = pred_buffer
           /\ q_buffer' = q_buffer
           /\ delta_q_table' = delta_q_table
           /\ updates' = <<>>
           /\ \A i \in Rows : SameIdentity(reward_table'[i], reward_table[i])
           /\ error' = "none"
      ]_vars

\* C8 witness: the engine has just processed a page-boundary entry whose block
\* lies below the previous entry's block.
PageJumpHappened ==
    /\ step.kind = "page_jump"
    /\ step.delta < n_cache_blks_per_page
    /\ processed > 1

\* C9 -- an output record is emitted on a step if and only if the step is
\* intra-page and the selected delta keeps delta + curr_block within
\* [0, largest_delta]; both output streams hold the same number of records.
OutputIffAcceptedPrefetch ==
    [][ (processed' = processed + 1)
        => /\ (Len(pred_buffer') = Len(pred_buffer) + 1)
                 <=> ( /\ step'.kind = "intra_page"
                       /\ 0 <= step'.delta_next + BlockOf(step'.addr)
                       /\ step'.delta_next + BlockOf(step'.addr) <= largest_delta )
           /\ Len(q_buffer') = Len(pred_buffer')
      ]_vars

\* C10 -- the Q-value emitted with an accepted prefetch is the Q-value used
\* for the decision: after a step that accepted a prefetch the last record of
\* the Q-value stream is Q[signature, chosen column] as get_next_offset saw it.
EmittedQValueIsDecisionValue ==
    (step.kind = "intra_page" /\ ~step.invalid_prefetch)
        => /\ Len(q_buffer) > 0
           /\ q_buffer[Len(q_buffer)] = step.q_used

\* the step that leads to the next state ran _issue_rewards: every insert
\* does, and check_n_give_reward does when the address matches a valid row
RewardPassRan ==
    \/ op'.name = "insert"
    \/ op'.name = "check_n_give_reward" /\ AddressFound(op'.addr)
\* the step overwrote row i with the new record
OverwrittenByStep(i) ==
    op'.name = "insert" /\ op'.n_exact = 0 /\ op'.victim = i
\* the reward _issue_rewards left in row i: the one flushed into the
\* DeltaQTable when the insert went on to overwrite the row
RewardAfterPass(i) ==
    IF OverwrittenByStep(i)
    THEN updates'[Len(updates')].reward
    ELSE reward_table'[i].reward

\* C11 -- Miss penalty.  Whenever _issue_rewards runs for a looked-up
\* address, every valid row whose address differs loses exactly the miss
\* penalty, every valid row whose address matches gains exactly the hit or
\* the pseudo-hit reward with no miss charge left in it, and the reward of
\* every invalid row is unchanged.
MissPenaltyOnUnmatchedOnly ==
    [][ RewardPassRan
        => \A i \in Rows :
              /\ (~LiveAtRewardTime(i))
                    => RewardAfterPass(i) = reward_table[i].reward
              /\ (LiveAtRewardTime(i) /\ reward_table[i].prefetched_address # op'.addr)
                    => RewardAfterPass(i) = reward_table[i].reward + REWARD_MISS
              /\ (LiveAtRewardTime(i) /\ reward_table[i].prefetched_address = op'.addr)
                    => (RewardAfterPass(i) - reward_table[i].reward)
                          \in {REWARD_HIT, REWARD_PSEUDO_HIT}
      ]_vars

\* C11 witness: a table holding one valid row with reward 16 has taken an
\* insert of a different address, and the row is left with 15.
MissChargedOnce ==
    /\ op.name = "insert"
    /\ processed = 2
    /\ ValidRows = Rows
    /\ \E i \in Rows :
          /\ reward_table[i].prefetched_address # op.addr
          /\ reward_table[i].reward = 15

\* C12 -- Exact hit.  In insert and in check_n_give_reward alike, a valid
\* row that matches the looked-up address and signature gains exactly the hit
\* reward, with no miss penalty, and its timestamp becomes the logical clock
\* the call started with.
ExactHitRewardsAndTouches ==
    [][ RewardPassRan
        => \A i \in Rows :
              ( /\ LiveAtRewardTime(i)
                /\ reward_table[i].prefetched_address = op'.addr
                /\ reward_table[i].delta_signature = op'.sig )
              => /\ reward_table'[i].reward = reward_table[i].reward + REWARD_HIT
                 /\ reward_table'[i].timestamp = logical_clock
                 /\ reward_table'[i].valid > 0
      ]_vars

\* C12 witness: check_n_give_reward has just hit a row exactly, after the
\* clock had moved on from the row's creation.
ExactHitOnCheck ==
    /\ op.name = "check_n_give_reward"
    /\ op.n_exact = 1
    /\ logical_clock >= 2
    /\ \E i \in ValidRows :
          /\ reward_table[i].prefetched_address = op.addr
          /\ reward_table[i].delta_signature = op.sig
          /\ reward_table[i].timestamp = logical_clock
          /\ reward_table[i].reward >= 2 * REWARD_HIT - 1

\* C13 -- Pseudo-hit.  A valid row that matches the looked-up address with
\* a different signature gains exactly the pseudo-hit reward, with no miss
\* penalty, and its timestamp is left as it was.
PseudoHitRewardsWithoutTouch ==
    [][ RewardPassRan
        => \A i \in Rows :
              ( /\ LiveAtRewardTime(i)
                /\ reward_table[i].prefetched_address = op'.addr
                /\ reward_table[i].delta_signature # op'.sig )
              => /\ RewardAfterPass(i) = reward_table[i].reward + REWARD_PSEUDO_HIT
                 /\ (~OverwrittenByStep(i))
                       => reward_table'[i].timestamp = reward_table[i].timestamp
      ]_vars

\* C13 witness: a row has just been given the pseudo-hit reward by a
\* check_n_give_reward of its address under another signature, well after
\* its creation.
PseudoHitOnCheck ==
    /\ op.name = "check_n_give_reward"
    /\ op.found
    /\ op.n_exact = 0
    /\ \E i \in ValidRows :
          /\ reward_table[i].prefetched_address = op.addr
          /\ reward_table[i].delta_signature # op.sig
          /\ reward_table[i].reward = REWARD_HIT + REWARD_PSEUDO_HIT
          /\ reward_table[i].timestamp < logical_clock

\* row i is valid and reaches steps_per_entry: the next insert expires it
ExpiresAtNextInsert(i) ==
    reward_table[i].valid > 0 /\ reward_table[i].step >= steps_per_entry

\* C14 -- An insert that finds an exact (address, signature) match among the
\* valid rows creates no row and evicts nothing: apart from the rows expired
\* at its start the valid bits are unchanged, every row keeps its address,
\* delta and signature, the only DeltaQTable.update calls are the expiry
\* flushes (the computed victim is neither flushed nor overwritten), and
\* every row's age, the matched row's included, goes up by one.
ExactMatchInsertAddsNothing ==
    [][ ( /\ op'.name = "insert"
          /\ \E i \in Rows :
                /\ LiveAtRewardTime(i)
                /\ reward_table[i].prefetched_address = op'.addr
                /\ reward_table[i].delta_signature = op'.sig )
        => /\ op'.n_exact = 1
           /\ \A i \in Rows :
                 /\ reward_table'[i].prefetched_address = reward_table[i].prefetched_address
                 /\ reward_table'[i].delta = reward_table[i].delta
                 /\ reward_table'[i].delta_signature = reward_table[i].delta_signature
                 /\ reward_table'[i].valid =
                       (IF ExpiresAtNextInsert(i) THEN 0 ELSE reward_table[i].valid)
                 /\ reward_table'[i].step = reward_table[i].step + 1
           /\ Len(updates') = Cardinality({i \in Rows : ExpiresAtNextInsert(i)})
           /\ \A k \in 1 .. Len(updates') :
                 /\ updates'[k].cause = "expiry"
                 /\ ExpiresAtNextInsert(updates'[k].row)
      ]_vars

\* C14 witness: an insert has just matched a row exactly while another row
\* expired at its start; the table is left with one valid row.
ExactMatchInsertBesideExpiry ==
    /\ op.name = "insert"
    /\ op.n_exact = 1
    /\ Len(updates) = 1
    /\ updates[1].cause = "expiry"
    /\ Cardinality(ValidRows) = 1
    /\ \E i \in ValidRows :
          /\ reward_table[i].prefetched_address = op.addr
          /\ reward_table[i].delta_signature = op.sig
          /\ reward_table[i].step > 0

\* C15 -- check_n_give_reward never inserts: for any address and signature
\* it leaves every row's valid bit, address, delta, signature and age and the
\* whole DeltaQTable unchanged; a timestamp changes only in a valid row that
\* matches the address and the signature, a reward only in a valid row.
CheckNeverInserts ==
    [][ (op'.name = "check_n_give_reward")
        => /\ \A i \in Rows :
                 /\ SameIdentity(reward_table'[i], reward_table[i])
                 /\ reward_table'[i].step = reward_table[i].step
                 /\ (reward_table'[i].timestamp # reward_table[i].timestamp)
                       => /\ reward_table[i].valid > 0
                          /\ reward_table[i].prefetched_address = op'.addr
                          /\ reward_table[i].delta_signature = op'.sig
                 /\ (reward_table'[i].reward # reward_table[i].reward)
                       => reward_table[i].valid > 0
           /\ delta_q_table' = delta_q_table
           /\ updates' = <<>>
      ]_vars

\* C15 witness: a check_n_give_reward has just changed the rewards of a full
\* table, charging a second miss to a row of another address.
CheckChargedFullTable ==
    /\ op.name = "check_n_give_reward"
    /\ op.found
    /\ ValidRows = Rows
    /\ \E i \in Rows :
          /\ reward_table[i].prefetched_address # op.addr
          /\ reward_table[i].reward = REWARD_HIT + 2 * REWARD_MISS
          /\ reward_table[i].step > 0

\* C16 -- Signature boundedness.  For every current signature and every
\* delta, positive, zero or negative, next_signature returns a value in
\* [0, 2^signature_bits): along any sequence of deltas the running signature
\* is in that range from the first application on.
SignatureStaysInRange ==
    /\ \A k \in 1 .. Len(hash_log) :
          /\ hash_log[k].new_signature >= 0
          /\ hash_log[k].new_signature < Pow2(signature_bits)
    /\ (processed > 0) => (delta_signature \in 0 .. (Pow2(signature_bits) - 1))

\* C16 witness: the hasher was applied to a signature above the range with a
\* negative delta beyond the largest in-page delta, and then again with a
\* positive one.
OutOfRangeSignatureHashed ==
    /\ Len(hash_log) = 2
    /\ hash_log[1].curr_signature >= Pow2(signature_bits)
    /\ hash_log[1].delta < least_delta
    /\ hash_log[2].delta > largest_delta
    /\ delta_signature = hash_log[2].new_signature

\* the two logged applications both took a delta of the table's range
LoggedDeltasInRange ==
    \A k \in 1 .. Len(hash_log) : hash_log[k].delta \in least_delta .. largest_delta

\* C17 -- The hasher encodes a delta in fixed-width sign-magnitude form:
\* one bit position carries the sign of every delta, above the magnitude,
\* so two different deltas of [-largest_delta, largest_delta] never get the
\* same encoding.
FixedWidthSignMagnitude ==
    LoggedDeltasInRange
    => /\ \E sign_pos \in 0 .. (max_bits_per_delta + 1) :
             \A k \in 1 .. Len(hash_log) :
                hash_log[k].sign_magnitude =
                    (IF hash_log[k].delta < 0 THEN Pow2(sign_pos) ELSE 0)
                        + Abs(hash_log[k].delta)
       /\ \A j, k \in 1 .. Len(hash_log) :
             (hash_log[j].delta # hash_log[k].delta)
                => (hash_log[j].sign_magnitude # hash_log[k].sign_magnitude)

\* C18 -- Every delta the engine passes to next_signature, on intra-page and
\* on page-boundary steps alike, lies in [-largest_delta, largest_delta], the
\* range the hasher's magnitude bits were sized for.
HashedDeltasWithinLargest ==
    (step.kind \in {"intra_page", "page_jump"})
        => /\ step.delta >= least_delta
           /\ step.delta <= largest_delta
           /\ Len(BinDigits(Abs(step.delta))) <= max_bits_per_delta - 1

\* C19 -- Column/delta round trip.  For every delta d of
\* [least_delta, largest_delta] the column index d - least_delta lies in
\* [0, 2*blocks_per_page - 1) and converts back to d; every column index of
\* that range converts to a delta of [least_delta, largest_delta] and back
\* to itself.
ColumnDeltaRoundTrip ==
    /\ (qcall.name = "_get_column_index")
          => /\ qcall.column = qcall.delta - least_delta
             /\ qcall.column >= 0
             /\ qcall.column < (2 * n_cache_blks_per_page) - 1
             /\ qcall.back = qcall.delta
    /\ (qcall.name = "_get_delta_from_idx")
          => /\ qcall.delta >= least_delta
             /\ qcall.delta <= largest_delta
             /\ qcall.back = qcall.column

\* C19 witness: the last column has just been converted to the largest delta
\* and back.
LastColumnConverted ==
    /\ qcall.name = "_get_delta_from_idx"
    /\ qcall.column = (2 * n_cache_blks_per_page) - 2
    /\ qcall.delta = largest_delta

\* some cell of row s holds m and no cell of the row holds more
IsRowMax(q, s, m) ==
    /\ \E c \in Columns : q[s][c] = m
    /\ \A c \in Columns : ~QLess(m, q[s][c])

\* C20 -- Q-update.  update(signature, delta, reward) sets
\* Q[signature, column(delta)] to
\* Q_old + alpha*(reward + gamma*max(Q[s_next]) - Q_old), with
\* s_next = next_signature(signature, delta) and the max taken over the row
\* as it stood before the update, and leaves every other cell unchanged.
UpdateSetsExactValue ==
    [][ (qcall'.name = "update" /\ processed' = processed + 1)
        => \A s \in {qcall'.signature}, c \in {qcall'.delta - least_delta} :
           \A s_next \in {next_signature(s, qcall'.delta)}, Q_old \in {delta_q_table[s][c]} :
               /\ \E m \in {delta_q_table[s_next][a] : a \in Columns} :
                     /\ IsRowMax(delta_q_table, s_next, m)
                     /\ \A discounted \in {QMul(gamma, m)} :
                        \A target \in {QAdd(QInt(qcall'.reward), discounted)} :
                        \A error_term \in {QSub(target, Q_old)} :
                        \A correction \in {QMul(alpha, error_term)} :
                            delta_q_table'[s][c] = QAdd(Q_old, correction)
               /\ \A t \in Signatures, a \in Columns :
                     (t # s \/ a # c) => delta_q_table'[t][a] = delta_q_table[t][a]
      ]_vars

\* C20 witness: a cell whose next signature is its own row was updated twice
\* with reward 16: 8 after the first update, 8 + (16 + 8/2 - 8)/2 = 14 after
\* the second, the row's maximum being the cell's own old value.
SelfRowUpdatedTwice ==
    /\ qcall.name = "update"
    /\ qcall.reward = REWARD_HIT
    /\ next_signature(qcall.signature, qcall.delta) = qcall.signature
    /\ delta_q_table[qcall.signature][qcall.delta - least_delta] = QInt(14)

\* column col holds the maximum of row s of q, and no lower column does
IsFirstMaxColumn(q, s, col) ==
    /\ \A c \in Columns : ~QLess(q[s][col], q[s][c])
    /\ \A c \in Columns : (c < col) => QLess(q[s][c], q[s][col])

\* C21 -- Epsilon boundary.  With epsilon = 0 get_next_offset never explores
\* and returns the column of the maximum Q-value of the signature's row, the
\* lowest one on ties; with epsilon = 1 it always explores and returns the
\* drawn column; it returns delta = column + least_delta and byte offset
\* delta * cache_line_size_bytes with the column, and never modifies the
\* table.
EpsilonBoundary ==
    [][ (qcall'.name = "get_next_offset" /\ processed' = processed + 1)
        => /\ delta_q_table' = delta_q_table
           /\ (qcall'.eps = QInt(0))
                 => IsFirstMaxColumn(delta_q_table, qcall'.signature, qcall'.column)
           /\ (qcall'.eps = QInt(1)) => (qcall'.column = qcall'.choice)
           /\ qcall'.column \in Columns
           /\ qcall'.delta = qcall'.column + least_delta
           /\ qcall'.actual_offset = qcall'.delta * cache_line_size_bytes
      ]_vars

\* C21 witness: a table with epsilon = 0 has just answered for a row whose
\* first column went negative and whose other columns tie at 0, the drawn
\* column being the last one and the uniform draw being 0: it returned the
\* second column.
ExploitedOnTie ==
    /\ qcall.name = "get_next_offset"
    /\ qcall.eps = QInt(0)
    /\ qcall.uniform = QInt(0)
    /\ qcall.choice = n_cache_line_offsets - 1
    /\ QLess(delta_q_table[qcall.signature][0], QInt(0))
    /\ qcall.column = 1

\* C22 -- LRU find_victim.  If at least one row has valid = 0 the index
\* returned is that of an invalid row, the lowest such index; otherwise it
\* is an index whose timestamp is the minimum over all rows, the lowest such
\* index.
VictimIsInvalidElseOldest ==
    (op.name = "find_victim")
        => /\ op.victim \in Rows
           /\ (ValidRows # Rows)
                 => /\ reward_table[op.victim].valid = 0
                    /\ \A j \in Rows : (j < op.victim) => reward_table[j].valid # 0
           /\ (ValidRows = Rows)
                 => /\ op.victim \in MinTimestampRows
                    /\ \A j \in MinTimestampRows : op.victim <= j

\* C22 witness: find_victim has answered for a table whose only invalid row
\* is the last one and carries the largest timestamp.
InvalidRowPreferred ==
    /\ op.name = "find_victim"
    /\ ValidRows = Rows \ {n_entries - 1}
    /\ op.victim = n_entries - 1
    /\ \A j \in ValidRows :
          reward_table[j].timestamp < reward_table[n_entries - 1].timestamp

\* C23 -- No final flush.  When the calls end and the engine is stopped, no
\* DeltaQTable.update is made for the rows still valid in the reward
\* tracker: the Q-table after stop is the Q-table the last call left, and the
\* rows are left as they were, their rewards uncredited.
NoFinalFlush ==
    [][ (pc' = "stopped" /\ pc # "stopped")
        => /\ delta_q_table' = delta_q_table
           /\ updates' = <<>>
           /\ reward_table' = reward_table
      ]_vars

\* C23 witness: the engine was stopped with a full table, one of whose rows
\* has earned more than its initial reward.
StoppedWithLiveRows ==
    /\ pc = "stopped"
    /\ op.name = "stop"
    /\ ValidRows = Rows
    /\ \E i \in Rows : reward_table[i].reward > REWARD_HIT

\* C24 -- Penalize before victim use.  When an insert evicts a valid row,
\* the reward it passes to DeltaQTable.update for the row is the reward the
\* row had before the insert plus this insert's adjustment: minus the miss
\* penalty if the row's address is not the inserted one, plus the pseudo-hit
\* reward if it is (under another signature).
VictimFlushedAfterRewards ==
    [][ ( /\ op'.name = "insert"
          /\ op'.n_exact = 0
          /\ op'.victim \in Rows
          /\ LiveAtRewardTime(op'.victim) )
        => LET v == reward_table[op'.victim]
               flush == updates'[Len(updates')]
           IN  /\ Len(updates') > 0
               /\ flush.cause = "victim"
               /\ flush.row = op'.victim
               /\ flush.signature = v.delta_signature
               /\ flush.delta = v.delta
               /\ flush.reward =
                     v.reward + (IF v.prefetched_address = op'.addr
                                 THEN REWARD_PSEUDO_HIT
                                 ELSE REWARD_MISS)
      ]_vars

\* C24 witness: an insert has just evicted a valid row that had taken one
\* miss and matched the inserted address under another signature: it was
\* flushed with 16 - 1 + 8.
VictimFlushedWithPseudoHit ==
    /\ op.name = "insert"
    /\ op.n_exact = 0
    /\ Len(updates) = 1
    /\ updates[1].cause = "victim"
    /\ updates[1].was_valid = 1
    /\ updates[1].reward = REWARD_HIT + REWARD_MISS + REWARD_PSEUDO_HIT

\* C25 -- Each tracked record is credited at most once: for every row an
\* insert made valid, DeltaQTable.update is called with the record at most
\* one time, at expiry or at eviction, never both and never again after the
\* row was invalidated.
CreditedAtMostOnce ==
    [][ (op'.name = "insert")
        => \A i \in Rows :
              credited[i].tracked
                 => credited[i].flushes + FlushesOf(i, updates') <= 1
      ]_vars

\* C26 -- Age bound.  After every completed insert or check_n_give_reward
\* every valid row's age is between 0 and steps_per_entry and its delta lies
\* in [least_delta, largest_delta], so every DeltaQTable.update made for a
\* valid row indexes an existing cell of the Q-table.
AgeAndDeltaBounded ==
    /\ \A i \in ValidRows :
          /\ reward_table[i].step >= 0
          /\ reward_table[i].step <= steps_per_entry
          /\ reward_table[i].delta >= least_delta
          /\ reward_table[i].delta <= largest_delta
    /\ \A k \in 1 .. Len(updates) :
          (updates[k].was_valid = 1)
             => /\ updates[k].signature \in 0 .. (n_delta_q_entries - 1)
                /\ (updates[k].delta - least_delta) \in 0 .. (n_cache_line_offsets - 1)

\* C26 witness: a row is valid at age steps_per_entry beside a row of age 0,
\* an insert having just flushed a valid victim.
RowAtFullAge ==
    /\ op.name = "insert"
    /\ \E i, j \in ValidRows :
          /\ reward_table[i].step = steps_per_entry
          /\ reward_table[j].step = 0
    /\ \E k \in 1 .. Len(updates) : updates[k].was_valid = 1

\* C27 -- Bounded credit.  Every row an insert made valid is flushed into
\* the DeltaQTable, by expiry or by eviction, no later than during the
\* (steps_per_entry + 1)-th insert that follows: a valid row never has more
\* than steps_per_entry inserts behind it, its age counts exactly those
\* inserts, and the insert that finds it with steps_per_entry behind it
\* flushes it.  A check_n_give_reward in between neither ages a row nor
\* flushes one, and neither does the stop: without a further insert no row is
\* flushed.
CreditWithinBound ==
    [][ /\ (op'.name = "insert")
              => /\ \A i \in ValidRows :
                       /\ inserts_since[i] <= steps_per_entry
                       /\ reward_table[i].step = inserts_since[i]
                       /\ (inserts_since[i] = steps_per_entry)
                             => FlushesOf(i, updates') >= 1
                 /\ \A i \in Rows :
                       (reward_table'[i].valid > 0)
                          => /\ inserts_since'[i] <= steps_per_entry
                             /\ reward_table'[i].step = inserts_since'[i]
        /\ (op'.name \in {"check_n_give_reward", "stop"})
              => /\ updates' = <<>>
                 /\ delta_q_table' = delta_q_table
                 /\ inserts_since' = inserts_since
                 /\ \A i \in Rows :
                       /\ reward_table'[i].step = reward_table[i].step
                       /\ reward_table'[i].valid = reward_table[i].valid
      ]_vars

\* C27 witness: a row that a check_n_give_reward hit exactly after its
\* creation was flushed by eviction at the second insert after its creation
\* (reward 16 + 16 - 1 - 1), the check not having aged it.
EvictedWithinBoundAfterCheck ==
    /\ op.name = "insert"
    /\ processed = logical_clock + 1
    /\ logical_clock = 3
    /\ Len(updates) = 1
    /\ updates[1].cause = "victim"
    /\ updates[1].was_valid = 1
    /\ updates[1].reward = (2 * REWARD_HIT) + (2 * REWARD_MISS)
    /\ \A i \in Rows : reward_table[i].step <= 1

\* C28 -- Timestamps order the live rows totally: in every reachable state
\* each valid row's timestamp is at most the logical clock and no two valid
\* rows carry the same timestamp.
TimestampsTotallyOrdered ==
    /\ \A i \in ValidRows : reward_table[i].timestamp <= logical_clock
    /\ \A i, j \in ValidRows :
          (i # j) => reward_table[i].timestamp # reward_table[j].timestamp

\* C28 (amended) -- Each valid row's timestamp is at most the logical
\* clock.  As long as only inserts have run, no two valid rows carry the same
\* timestamp; a check_n_give_reward that hits a row exactly stamps it with
\* the clock without advancing it, so that the row created by the next
\* insert gets the same timestamp.  When an insert evicts from a full table
\* the victim is a row of minimal timestamp, the one of lowest index when
\* several share it.
TimestampsBoundedTiesByIndex ==
    [][ /\ \A i \in Rows :
              (reward_table'[i].valid > 0) => reward_table'[i].timestamp <= logical_clock'
        /\ (processed' = logical_clock' /\ op'.name = "insert")
              => \A i, j \in Rows :
                    (i # j /\ reward_table'[i].valid > 0 /\ reward_table'[j].valid > 0)
                       => reward_table'[i].timestamp # reward_table'[j].timestamp
        /\ (op'.name = "insert" /\ op'.n_exact = 0 /\ \A i \in Rows : LiveAtRewardTime(i))
              => /\ op'.victim \in MinTimestampRows
                 /\ \A j \in MinTimestampRows : op'.victim <= j
      ]_vars

\* C28 witness: an insert has just evicted the first of two valid rows that
\* shared the minimal timestamp; the surviving row, older than the new one
\* by the same margin, has the higher index.
TieResolvedByIndex ==
    /\ op.name = "insert"
    /\ op.n_exact = 0
    /\ op.victim = 0
    /\ ValidRows = Rows
    /\ Len(updates) = 1
    /\ updates[1].was_valid = 1
    /\ processed = logical_clock + 1
    /\ \A j \in Rows \ {0} : reward_table[j].timestamp = logical_clock - 2
    /\ updates[1].reward >= (2 * REWARD_HIT) + (2 * REWARD_MISS)

====
